---- MODULE Spec2Model ----
(***************************************************************************)
(* The profile-creation endpoint of src/routes/profiles.py:                *)
(* get_current_user (the authentication dependency) followed by            *)
(* create_user_profile.  Every request runs in its own database session;   *)
(* requests interleave at the awaits of the handler (the user lookup, the  *)
(* duplicate query, upload_file, commit, get_file_url).                    *)
(*                                                                         *)
(* A request's inputs (token, path user_id, avatar file, date_of_birth)    *)
(* are bound in the model at the line of the handler that first reads      *)
(* them; no earlier line depends on them.                                  *)
(***************************************************************************)
EXTENDS Integers, FiniteSets, Sequences, TLC

\* ---------------------------------------------------------------- bounds
NumUsers == 2
NumRequests == 2

\* ------------------------------------------------------------- constants
\* group_id compared against at the authorization gate
ElevatedGroup == 3
\* the image size policy of validate_image, in MB
MaxImageSize == 5

UserIds == 1 .. NumUsers
Requests == 1 .. NumRequests

\* UserModel.group_id of the rows of the users table: user 1 is in the
\* elevated group, every other user in the ordinary group 1.
group_id(u) == IF u = 1 THEN ElevatedGroup ELSE 1

\* --------------------------------------------------------------- inputs
\* A bearer token: absent, or a string that decode_access_token rejects as
\* expired or invalid, or one that decodes to a payload.  A payload is <<>>
\* (no "user_id" key) or <<u>>; user NumUsers + 1 is not in the users table.
Payloads == {<< >>} \cup {<<u>> : u \in 1 .. NumUsers + 1}

Tokens ==
    {[kind |-> k, payload |-> << >>] : k \in {"missing", "expired", "invalid"}}
        \cup {[kind |-> "signed", payload |-> p] : p \in Payloads}

\* The uploaded avatar file: declared content type and size in MB.
AvatarFiles ==
    { [content_type |-> "image/jpeg", size |-> 1],
      [content_type |-> "text/plain", size |-> 1],
      [content_type |-> "image/jpeg", size |-> MaxImageSize + 1] }

\* The date_of_birth form field, as the text fields of the string and the
\* separator between them.
BirthDates ==
    { [sep |-> "-", year |-> 1990, month |-> 5, day |-> 1],
      [sep |-> "-", year |-> 2999, month |-> 1, day |-> 1],
      [sep |-> "-", year |-> 1990, month |-> 2, day |-> 30],
      [sep |-> "/", year |-> 1990, month |-> 5, day |-> 1] }

\* Markers of an input the handler has not read yet.
NoToken == [kind |-> "unread", payload |-> << >>]
NoAvatar == [content_type |-> "unread", size |-> 0]
NoDate == [sep |-> "unread", year |-> 0, month |-> 0, day |-> 0]
NoResponse == [status |-> 0, detail |-> "", avatar |-> << >>]

\* ---------------------------------------------------------------- state
VARIABLES
    is_active,      \* UserModel.is_active of every user row
    profiles,       \* the committed UserProfileModel rows
    storage,        \* the object stored under every avatar key (0: none)
    uploads,        \* the requests whose upload_file call returned
    pc,             \* every request's position in the handler
    token,          \* the request's bearer token
    current_user,   \* the user get_current_user returned (0: none)
    user_id,        \* the path parameter (0: not read)
    avatar,         \* the avatar file part
    date_of_birth,  \* the date_of_birth form field
    session,        \* the rows added to the request's session, uncommitted
    response        \* the response sent (status 0: none yet)

vars ==
    << is_active, profiles, storage, uploads, pc, token, current_user,
       user_id, avatar, date_of_birth, session, response >>

\* ------------------------------------------------------ pure operations
\* f"avatars/{user_id}_avatar.jpg"
AvatarKey(u) == << "avatars/", u, "_avatar.jpg" >>

AvatarKeys == {AvatarKey(u) : u \in UserIds}

\* validate_image: raises ValueError unless the file is an accepted image
\* type within the size limit.
validate_image(file) ==
    /\ file.content_type \in {"image/jpeg", "image/png"}
    /\ file.size <= MaxImageSize

IsLeap(y) == (y % 4 = 0 /\ y % 100 # 0) \/ y % 400 = 0

DaysInMonth(y, m) ==
    IF m = 2 THEN (IF IsLeap(y) THEN 29 ELSE 28)
    ELSE IF m \in {4, 6, 9, 11} THEN 30 ELSE 31

\* datetime.strptime(date_of_birth, "%Y-%m-%d") does not raise ValueError.
strptime_ok(d) ==
    /\ d.sep = "-"
    /\ d.year \in 1 .. 9999
    /\ d.month \in 1 .. 12
    /\ d.day \in 1 .. DaysInMonth(d.year, d.month)

\* .date() of the parsed value
strptime_date(d) == << d.year, d.month, d.day >>

HTTPException(code, msg) == [status |-> code, detail |-> msg, avatar |-> << >>]

\* get_file_url of the storage collaborator: the display URL of a key.
get_file_url(key) == << "http://storage/" >> \o key

\* The 201 body: the refreshed profile with the resolved avatar URL.
UserProfileResponseSchema(row, url) ==
    [status |-> 201, detail |-> "", avatar |-> url]

\* ---------------------------------------------------------- Init
Init ==
    /\ is_active = [u \in UserIds |-> TRUE]
    /\ profiles = {}
    /\ storage = [k \in AvatarKeys |-> 0]
    /\ uploads = {}
    /\ pc = [r \in Requests |-> "arrive"]
    /\ token = [r \in Requests |-> NoToken]
    /\ current_user = [r \in Requests |-> 0]
    /\ user_id = [r \in Requests |-> 0]
    /\ avatar = [r \in Requests |-> NoAvatar]
    /\ date_of_birth = [r \in Requests |-> NoDate]
    /\ session = [r \in Requests |-> {}]
    /\ response = [r \in Requests |-> NoResponse]

\* The handler raises: the request ends with this response.
Raise(r, resp) ==
    /\ pc' = [pc EXCEPT ![r] = "done"]
    /\ response' = [response EXCEPT ![r] = resp]

Goto(r, label) ==
    /\ pc' = [pc EXCEPT ![r] = label]
    /\ UNCHANGED response

\* ------------------------------------------------------ get_current_user
\* Variant: the is_active flag of the user found is not looked at.
AuthFailure_ignoring_is_active(tok) ==
    IF tok.kind = "missing" THEN "Token missing"
    ELSE IF tok.kind = "expired" THEN "Token has expired."
    ELSE IF tok.kind = "invalid" THEN "Invalid token"
    ELSE IF tok.payload = << >> THEN "User not found or not active."
    ELSE IF tok.payload[1] \notin UserIds
         THEN "User not found or not active."
    ELSE ""

\* The detail of the 401 get_current_user raises for the token, "" when it
\* returns the user.
AuthFailure(tok) ==
    IF tok.kind = "missing" THEN "Token missing"
    ELSE IF tok.kind = "expired" THEN "Token has expired."
    ELSE IF tok.kind = "invalid" THEN "Invalid token"
    ELSE IF tok.payload = << >> THEN "User not found or not active."
    ELSE IF tok.payload[1] \notin UserIds \/ ~is_active[tok.payload[1]]
         THEN "User not found or not active."
    ELSE ""

\* Requests are numbered in the order they arrive.
get_current_user(r) ==
    /\ pc[r] = "arrive"
    /\ \A q \in 1 .. r - 1 : pc[q] # "arrive"
    /\ \E tok \in Tokens :
        /\ token' = [token EXCEPT ![r] = tok]
        /\ IF AuthFailure(tok) # ""
           THEN /\ Raise(r, HTTPException(401, AuthFailure(tok)))
                /\ UNCHANGED current_user
           ELSE /\ current_user' = [current_user EXCEPT ![r] = tok.payload[1]]
                /\ Goto(r, "authorize")
    /\ UNCHANGED << is_active, profiles, storage, uploads, user_id, avatar,
                    date_of_birth, session >>

\* --------------------------------------------------- create_user_profile
\* Variant: only the owner passes, the elevated group is not looked at.
Permitted_self_only(acting, target) == acting = target

\* The authorization gate lets the acting user through.
Permitted(acting, target) ==
    ~(acting # target /\ group_id(acting) # ElevatedGroup)

\* Variant: the duplicate query never finds a row.
ExistingProfile_never(target) == FALSE

\* select(UserProfileModel).filter(user_id == target) ... .first()
ExistingProfile(target) == \E row \in profiles : row.user_id = target

\* Variant: the duplicate check runs before the authorization gate.
authorize_after_lookup(r) ==
    /\ pc[r] = "authorize"
    /\ \E target \in UserIds :
        /\ user_id' = [user_id EXCEPT ![r] = target]
        /\ IF ExistingProfile(target)
           THEN Raise(r, HTTPException(400, "User already has a profile."))
           ELSE IF Permitted(current_user[r], target)
           THEN Goto(r, "query")
           ELSE Raise(r, HTTPException(403,
                    "You don't have permission to edit this profile."))
    /\ UNCHANGED << is_active, profiles, storage, uploads, token,
                    current_user, avatar, date_of_birth, session >>

\* Lines 85-89: the acting user must be the target or in the elevated group.
authorize(r) ==
    /\ pc[r] = "authorize"
    /\ \E target \in UserIds :
        /\ user_id' = [user_id EXCEPT ![r] = target]
        /\ IF Permitted(current_user[r], target)
           THEN Goto(r, "query")
           ELSE Raise(r, HTTPException(403,
                    "You don't have permission to edit this profile."))
    /\ UNCHANGED << is_active, profiles, storage, uploads, token,
                    current_user, avatar, date_of_birth, session >>

check_existing(r) ==
    /\ pc[r] = "query"
    /\ IF ExistingProfile(user_id[r])
       THEN Raise(r, HTTPException(400, "User already has a profile."))
       ELSE Goto(r, "image")
    /\ UNCHANGED << is_active, profiles, storage, uploads, token,
                    current_user, user_id, avatar, date_of_birth, session >>

\* Variant: the ValueError of validate_image is not turned into a 422.
check_image_ignored(r) ==
    /\ pc[r] = "image"
    /\ \E file \in AvatarFiles :
        /\ avatar' = [avatar EXCEPT ![r] = file]
        /\ Goto(r, "date")
    /\ UNCHANGED << is_active, profiles, storage, uploads, token,
                    current_user, user_id, date_of_birth, session >>

\* Lines 100-105: validate_image, its ValueError becomes the 422.
check_image(r) ==
    /\ pc[r] = "image"
    /\ \E file \in AvatarFiles :
        /\ avatar' = [avatar EXCEPT ![r] = file]
        /\ IF validate_image(file)
           THEN Goto(r, "date")
           ELSE Raise(r, HTTPException(422, "invalid image"))
    /\ UNCHANGED << is_active, profiles, storage, uploads, token,
                    current_user, user_id, date_of_birth, session >>

\* The UserProfileModel the handler builds; created_by names the request.
NewProfile(r, d) ==
    [ user_id |-> user_id[r],
      date_of_birth |-> strptime_date(d),
      avatar |-> AvatarKey(user_id[r]),
      created_by |-> r ]

\* strptime, the construction of the profile and db.add(profile)
parse_date_and_add(r) ==
    /\ pc[r] = "date"
    /\ \E d \in BirthDates :
        /\ date_of_birth' = [date_of_birth EXCEPT ![r] = d]
        /\ IF strptime_ok(d)
           THEN /\ session' = [session EXCEPT ![r] = {NewProfile(r, d)}]
                /\ Goto(r, "upload")
           ELSE /\ Raise(r, HTTPException(422,
                        "Invalid date format. Use YYYY-MM-DD."))
                /\ UNCHANGED session
    /\ UNCHANGED << is_active, profiles, storage, uploads, token,
                    current_user, user_id, avatar >>

\* The profile the request added to its session.
Pending(r) == CHOOSE row \in session[r] : TRUE

\* avatar.read() and upload_file return: the object is stored under the key.
upload_file(r) ==
    /\ pc[r] = "upload"
    /\ storage' = [storage EXCEPT ![Pending(r).avatar] = r]
    /\ uploads' = uploads \cup {r}
    /\ Goto(r, "commit")
    /\ UNCHANGED << is_active, profiles, token, current_user, user_id,
                    avatar, date_of_birth, session >>

\* Variant: the S3FileUploadError is swallowed and the handler goes on to
\* commit.
upload_file_error_swallowed(r) ==
    /\ pc[r] = "upload"
    /\ Goto(r, "commit")
    /\ UNCHANGED << is_active, profiles, storage, uploads, token,
                    current_user, user_id, avatar, date_of_birth, session >>

\* Variant: the row is committed before upload_file is called, so that the
\* rollback of the except clause finds nothing to undo.
upload_file_error_after_commit(r) ==
    /\ pc[r] = "upload"
    /\ profiles' = profiles \cup session[r]
    /\ session' = [session EXCEPT ![r] = {}]
    /\ Raise(r, HTTPException(500,
            "Failed to upload avatar. Please try again later."))
    /\ UNCHANGED << is_active, storage, uploads, token, current_user,
                    user_id, avatar, date_of_birth >>

\* upload_file raises S3FileUploadError: db.rollback() and the 500.
upload_file_error(r) ==
    /\ pc[r] = "upload"
    /\ session' = [session EXCEPT ![r] = {}]
    /\ Raise(r, HTTPException(500,
            "Failed to upload avatar. Please try again later."))
    /\ UNCHANGED << is_active, profiles, storage, uploads, token,
                    current_user, user_id, avatar, date_of_birth >>

\* The unique constraint on the owning-user column rejects the insert.
UniqueViolation(row) == \E other \in profiles : other.user_id = row.user_id

\* db.commit(): the pending row is inserted, or the constraint raises
\* IntegrityError, which no except clause of the handler catches.
commit(r) ==
    /\ pc[r] = "commit"
    /\ IF UniqueViolation(Pending(r))
       THEN /\ Raise(r, HTTPException(500, "Internal Server Error"))
            /\ UNCHANGED profiles
       ELSE /\ profiles' = profiles \cup session[r]
            /\ Goto(r, "respond")
    /\ session' = [session EXCEPT ![r] = {}]
    /\ UNCHANGED << is_active, storage, uploads, token, current_user,
                    user_id, avatar, date_of_birth >>

\* The row the request committed, as db.refresh reloads it.
Committed(r) == CHOOSE row \in profiles : row.created_by = r

\* db.refresh, get_file_url and the 201 response
respond(r) ==
    /\ pc[r] = "respond"
    /\ Raise(r, UserProfileResponseSchema(Committed(r),
                    get_file_url(Committed(r).avatar)))
    /\ UNCHANGED << is_active, profiles, storage, uploads, token,
                    current_user, user_id, avatar, date_of_birth, session >>

\* The account system deactivates a user.
DeactivateUser(u) ==
    /\ is_active[u]
    /\ is_active' = [is_active EXCEPT ![u] = FALSE]
    /\ UNCHANGED << profiles, storage, uploads, pc, token, current_user,
                    user_id, avatar, date_of_birth, session, response >>

\* ------------------------------------------------------- specifications
\* Concurrent requests.
Next ==
    \E r \in Requests :
        \/ get_current_user(r)
        \/ authorize(r)
        \/ check_existing(r)
        \/ check_image(r)
        \/ parse_date_and_add(r)
        \/ upload_file(r)
        \/ upload_file_error(r)
        \/ commit(r)
        \/ respond(r)

Spec == Init /\ [][Next]_vars

\* No other request is in flight.
Alone(r) == \A q \in Requests \ {r} : pc[q] \in {"arrive", "done"}

\* Non-overlapping requests, a storage collaborator that works.
NextSeq ==
    \E r \in Requests :
        \/ Alone(r) /\ get_current_user(r)
        \/ Alone(r) /\ authorize(r)
        \/ Alone(r) /\ check_existing(r)
        \/ Alone(r) /\ check_image(r)
        \/ Alone(r) /\ parse_date_and_add(r)
        \/ Alone(r) /\ upload_file(r)
        \/ Alone(r) /\ commit(r)
        \/ Alone(r) /\ respond(r)

SpecSeq == Init /\ [][NextSeq]_vars

\* Non-overlapping requests while the account system deactivates users.
NextAuth ==
    \/ \E r \in Requests :
        \/ Alone(r) /\ get_current_user(r)
        \/ Alone(r) /\ authorize(r)
        \/ Alone(r) /\ check_existing(r)
        \/ Alone(r) /\ check_image(r)
        \/ Alone(r) /\ parse_date_and_add(r)
        \/ Alone(r) /\ upload_file(r)
        \/ Alone(r) /\ upload_file_error(r)
        \/ Alone(r) /\ commit(r)
        \/ Alone(r) /\ respond(r)
    \/ \E u \in UserIds : DeactivateUser(u)

SpecAuth == Init /\ [][NextAuth]_vars

\* =============================================================== claims
Done(r) == pc[r] = "done"

Status(r) == response[r].status

\* The rows a request committed, and the rows owned by a user.
RowsBy(r) == {row \in profiles : row.created_by = r}

RowsOf(u) == {row \in profiles : row.user_id = u}

\* The request ended with the 500 of the except S3FileUploadError clause.
StorageFailure(r) ==
    /\ Status(r) = 500
    /\ response[r].detail = "Failed to upload avatar. Please try again later."

\* The request wrote nothing: no committed or pending row, no upload.
Untouched(r) ==
    /\ RowsBy(r) = {}
    /\ session[r] = {}
    /\ r \notin uploads
    /\ \A k \in AvatarKeys : storage[k] # r

\* C1: a Profile row is committed only by a request whose upload_file call
\* for the row's avatar key has already returned successfully, so every
\* committed row's key holds an object.
C1_UploadBeforeCommit ==
    [][ /\ profiles \subseteq profiles'
        /\ \A row \in profiles' \ profiles :
            /\ row.created_by \in uploads
            /\ storage[row.avatar] # 0
            /\ row.avatar = AvatarKey(user_id[row.created_by]) ]_vars

\* C1 witness: one request ended with the storage failure and another one
\* committed its row.
C1_Witness ==
    \E r, q \in Requests :
        /\ StorageFailure(r)
        /\ RowsBy(q) # {}
        /\ q \in uploads

C3_OneCreatedOneConflict ==
    \A r, q \in Requests :
        ( /\ r # q
          /\ Done(r) /\ Done(q)
          /\ user_id[r] # 0 /\ user_id[r] = user_id[q]
          /\ Status(r) \notin {403, 422} /\ Status(q) \notin {403, 422}
          /\ ~StorageFailure(r) /\ ~StorageFailure(q)
          /\ RowsOf(user_id[r]) \subseteq RowsBy(r) \cup RowsBy(q) )
        => /\ {Status(r), Status(q)} = {201, 400}
           /\ Cardinality(RowsOf(user_id[r])) <= 1

\* C5: a request that reached the authorization gate is answered 403 exactly
\* when the acting user is not the target and not in the elevated group; a
\* 403 request wrote nothing; every row is owned by its request's target.
C5_ForbiddenExactly ==
    /\ \A r \in Requests :
        user_id[r] # 0 =>
            /\ Status(r) = 403 <=>
                   ( /\ current_user[r] # user_id[r]
                     /\ group_id(current_user[r]) # ElevatedGroup )
            /\ Status(r) = 403 => Untouched(r)
    /\ \A row \in profiles : row.user_id = user_id[row.created_by]

\* C5 witness: an elevated user created the profile of another user, and an
\* ordinary user was refused for another user.
C5_Witness ==
    /\ \E r \in Requests :
        /\ Status(r) = 201
        /\ current_user[r] # user_id[r]
        /\ \E row \in RowsBy(r) : row.user_id = user_id[r]
    /\ \E r \in Requests : Status(r) = 403

\* Today's date, as datetime.date.today() gives it to validate_birth_date.
Today == << 2026, 11, 6 >>

InFuture(d) ==
    \/ d[1] > Today[1]
    \/ d[1] = Today[1] /\ d[2] > Today[2]
    \/ d[1] = Today[1] /\ d[2] = Today[2] /\ d[3] > Today[3]

\* C6: a request whose date_of_birth is a well-formed date in the future
\* ends with 422, persists no row and uploads nothing.
C6_FutureBirthDateRejected ==
    \A r \in Requests :
        ( /\ date_of_birth[r] # NoDate
          /\ strptime_ok(date_of_birth[r])
          /\ InFuture(strptime_date(date_of_birth[r]))
          /\ Done(r) )
        => Status(r) = 422 /\ Untouched(r)

\* C7: a request whose avatar file validate_image rejects ends with 422,
\* never calls upload_file and persists no row.
C7_BadImageRejected ==
    \A r \in Requests :
        ( /\ avatar[r] # NoAvatar
          /\ ~( /\ avatar[r].content_type \in {"image/jpeg", "image/png"}
                /\ avatar[r].size <= MaxImageSize ) )
        => /\ Done(r)
           /\ Status(r) = 422
           /\ Untouched(r)
           /\ date_of_birth[r] = NoDate

\* C7 witness: a permitted request for a user without profile was rejected
\* for an oversized avatar.
C7_Witness ==
    \E r \in Requests :
        /\ Status(r) = 422
        /\ avatar[r].size > MaxImageSize
        /\ RowsOf(user_id[r]) = {}

\* The inputs a gate has read are acceptable to it.
Authorized(r) ==
    current_user[r] = user_id[r] \/ group_id(current_user[r]) = ElevatedGroup

\* C8: the response is that of the first failing gate: 403 is decided
\* before the duplicate query, 400 before any form field is validated, 422
\* before any upload, the 500 only for a request that passed the gates
\* before; a request answered 403, 400 or 422 wrote nothing.
C8_FirstFailingGate ==
    \A r \in Requests :
        /\ (user_id[r] # 0 /\ ~Authorized(r)) => Status(r) = 403
        /\ Status(r) = 403 => avatar[r] = NoAvatar /\ date_of_birth[r] = NoDate
        /\ Status(r) = 400 =>
              /\ Authorized(r)
              /\ RowsOf(user_id[r]) # {}
              /\ avatar[r] = NoAvatar /\ date_of_birth[r] = NoDate
        /\ Status(r) = 422 =>
              /\ Authorized(r)
              /\ \/ ~validate_image(avatar[r]) /\ date_of_birth[r] = NoDate
                 \/ validate_image(avatar[r]) /\ ~strptime_ok(date_of_birth[r])
        /\ Status(r) \in {500, 201} =>
              /\ Authorized(r)
              /\ validate_image(avatar[r])
              /\ strptime_ok(date_of_birth[r])
        /\ Status(r) \in {403, 400, 422} => Untouched(r)

\* C8 witness: a request failing the authorization gate for a target that
\* already has a profile got the 403 of the first gate.
C8_Witness ==
    /\ \E r \in Requests : Status(r) = 403 /\ RowsOf(user_id[r]) # {}
    /\ \E r \in Requests : Status(r) = 201

\* C10: no request that ended without 201 has its bytes stored under the
\* avatar key of a committed profile: the object under that key is the one
\* uploaded by the request that committed the profile.
C10_AvatarOfCommitter ==
    \A row \in profiles :
        \A r \in Requests :
            (Done(r) /\ Status(r) # 201) => storage[row.avatar] # r

\* The request passed every gate that reads its inputs or was turned away
\* as a duplicate: it failed neither authentication, authorization nor
\* validation.
ValidRequest(r) == Done(r) /\ Status(r) \notin {401, 403, 422}

\* C4: with non-overlapping valid requests and a working storage, a request
\* ends with 201 and exactly one row of its own for its target, or with 400
\* and no row of its own after another request created the target's
\* profile; no user has two rows, and a committed row is never changed or
\* removed.
C4_Inv ==
    /\ \A u \in UserIds : Cardinality(RowsOf(u)) <= 1
    /\ \A r \in Requests :
        ValidRequest(r) =>
            \/ /\ Status(r) = 201
               /\ RowsBy(r) = RowsOf(user_id[r])
               /\ Cardinality(RowsBy(r)) = 1
            \/ /\ Status(r) = 400
               /\ RowsBy(r) = {}
               /\ \E q \in Requests \ {r} :
                    /\ Status(q) = 201
                    /\ user_id[q] = user_id[r]
                    /\ RowsOf(user_id[r]) = RowsBy(q)

C4_CreatedOncePerUser == []C4_Inv /\ [][profiles \subseteq profiles']_vars

\* C4 witness: a first request created a user's profile and a later one for
\* the same user was answered 400.
C4_Witness ==
    \E r, q \in Requests :
        /\ r < q
        /\ user_id[r] = user_id[q]
        /\ Status(r) = 201
        /\ Status(q) = 400
        /\ Cardinality(RowsOf(user_id[r])) = 1

\* The user a token resolves to at this moment, 0 when it resolves to none.
ActiveUserOf(tok) ==
    IF /\ tok.kind = "signed"
       /\ tok.payload # << >>
       /\ tok.payload[1] \in UserIds
       /\ is_active[tok.payload[1]]
    THEN tok.payload[1]
    ELSE 0

\* C9: every call of get_current_user returns the token's user when the
\* token decodes to a user that exists and is active at that moment, and
\* otherwise ends the request with 401; a request answered 401 never
\* entered the handler and wrote nothing.
C9_Inv ==
    \A r \in Requests :
        Status(r) = 401 =>
            /\ user_id[r] = 0
            /\ current_user[r] = 0
            /\ Untouched(r)

C9_Step ==
    \A r \in Requests :
        (pc[r] = "arrive" /\ pc'[r] # "arrive") =>
            IF ActiveUserOf(token'[r]) # 0
            THEN /\ pc'[r] = "authorize"
                 /\ current_user'[r] = ActiveUserOf(token'[r])
                 /\ response'[r] = NoResponse
            ELSE /\ pc'[r] = "done"
                 /\ response'[r].status = 401

C9_ResolvedOnEveryCall == []C9_Inv /\ [][C9_Step]_vars

\* C9 witness: the same token was accepted for one request, which created
\* a profile, and rejected with 401 for a later one after the user had been
\* deactivated.
C9_Witness ==
    \E r, q \in Requests :
        /\ r < q
        /\ token[r] = token[q]
        /\ Status(r) = 201
        /\ Status(q) = 401
        /\ ~is_active[current_user[r]]
====
